---- MODULE Spec2Model ----
(***************************************************************************)
(* noteshare: the note store (Note, Rating, Comment rows of                *)
(* core/models.py) and the views of core/views.py that read and write it.  *)
(* Text is a sequence of one-character strings, so that substring search   *)
(* and case folding are computed and not assumed.                          *)
(***************************************************************************)
EXTENDS Integers, Sequences, FiniteSets, TLC

VARIABLES
    notes,      \* Note table: pk -> row (core/models.py Note)
    ratings,    \* Rating table: set of rows [note, user, score]
    comments,   \* Comment table: set of rows [id, post, user]
    seq,        \* the last primary key given out, per table (AUTOINCREMENT)
    viewed,     \* session data: <<user, pk>> when the user's session holds viewed_note_<pk>
    response,   \* what the last request answered
    ties,       \* the order in which the database returns rows that tie on ORDER BY
    inflight,   \* requests between two of their statements: slot -> request
    accounts,   \* User table with its Profile: username -> row
    sessions,   \* session store: session key -> session data
    mail        \* email tasks started by send_email

vars == <<notes, ratings, comments, seq, viewed, response, ties, inflight,
          accounts, sessions, mail>>
store == <<notes, ratings, comments, seq>>
\* what the views of the note store leave alone
auth == <<accounts, sessions, mail>>

----------------------------------------------------------------------------
(* Bounds of the model *)

MaxNotes == 2          \* notes in a store the feed is composed from
MaxComments == 2       \* comments created in a run of the store
MaxScore == 2          \* rating scores are 1..MaxScore
MaxUploads == 1        \* notes uploaded in a run of the store

----------------------------------------------------------------------------
(* Text *)

\* SQLite's LIKE folds the case of ASCII letters; these are the upper-case
\* letters the model's texts use.
Fold(c) ==
    CASE c = "A" -> "a"
      [] c = "M" -> "m"
      [] OTHER -> c

FoldText(t) == [i \in 1..Len(t) |-> Fold(t[i])]

\* field__icontains=q : field LIKE '%q%', case-insensitive
IContains(field, q) ==
    \E i \in 1..(Len(field) - Len(q) + 1) :
        FoldText(SubSeq(field, i, i + Len(q) - 1)) = FoldText(q)

----------------------------------------------------------------------------
(* Users.  django.contrib.auth usernames hold no whitespace. *)

Users == {"max", "bo"}

username(u) ==
    CASE u = "max" -> <<"m", "a", "x">>
      [] OTHER -> <<"b", "o">>

----------------------------------------------------------------------------
(* Aggregates: Note LEFT JOIN Rating LEFT JOIN Comment, GROUP BY note *)

\* SQL NULL, in the shape of an average
NULL == [null |-> TRUE, num |-> 0, den |-> 1]

RECURSIVE GCD(_, _)
GCD(a, b) == IF b = 0 THEN a ELSE GCD(b, a % b)

\* the quotient num/den of an average, in lowest terms
Quotient(num, den) ==
    LET g == GCD(num, den) IN [null |-> FALSE, num |-> num \div g, den |-> den \div g]

\* an INNER JOIN: a note without related rows yields no row
InnerJoin(related) == {[null |-> FALSE, row |-> r] : r \in related}

\* The rows of one LEFT OUTER JOIN: the related rows, or a single all-NULL row.
LeftJoin(related) ==
    IF related = {} THEN {[null |-> TRUE]}
    ELSE {[null |-> FALSE, row |-> r] : r \in related}

\* annotate(Avg('ratings__score'), Count('comments')) joins both relations
\* in one query: every rating row is paired with every comment row.
JoinRows(pk) ==
    LeftJoin({r \in ratings : r.note = pk}) \X LeftJoin({c \in comments : c.post = pk})

RECURSIVE SumScore(_)
SumScore(rows) ==
    IF rows = {} THEN 0
    ELSE LET j == CHOOSE x \in rows : TRUE
         IN j[1].row.score + SumScore(rows \ {j})

\* Avg('ratings__score'): the mean over the joined rows whose rating is not NULL
AvgRating(pk) ==
    LET rated == {j \in JoinRows(pk) : ~j[1].null}
    IN IF rated = {} THEN NULL ELSE Quotient(SumScore(rated), Cardinality(rated))

\* Count('comments'): the number of joined rows whose comment is not NULL
CommentCount(pk) == Cardinality({j \in JoinRows(pk) : ~j[2].null})

\* Note.objects.select_related(...).annotate(avg_rating=..., comment_count=...):
\* one row per group of joined rows (GROUP BY note)
Annotated ==
    {[pk |-> pk, avg_rating |-> AvgRating(pk), comment_count |-> CommentCount(pk)] :
        pk \in {p \in DOMAIN notes : JoinRows(p) # {}}}

----------------------------------------------------------------------------
(* home: the weighted search *)

WeightTitle == 10
WeightTags == 8
WeightCourse == 6
WeightUsername == 4
WeightDescription == 2

\* Case(When(<field>__icontains=query, then=Value(w)), default=Value(0))
CaseWhen(field, query, w) == IF IContains(field, query) THEN w ELSE 0

\* a single Case of five Whens: the first field that matches decides
RelevanceFirstMatch(n, query) ==
    IF IContains(n.title, query) THEN WeightTitle
    ELSE IF IContains(n.tags, query) THEN WeightTags
    ELSE IF IContains(n.course, query) THEN WeightCourse
    ELSE IF IContains(username(n.user), query) THEN WeightUsername
    ELSE IF IContains(n.description, query) THEN WeightDescription
    ELSE 0

\* the relevance annotation of note n for the search text query
Relevance(n, query) ==
      CaseWhen(n.title, query, WeightTitle)
    + CaseWhen(n.tags, query, WeightTags)
    + CaseWhen(n.course, query, WeightCourse)
    + CaseWhen(username(n.user), query, WeightUsername)
    + CaseWhen(n.description, query, WeightDescription)

\* request.GET.get('q'): the parameter may be absent (None)
NoQuery == [given |-> FALSE, text |-> <<>>]
Given(text) == [given |-> TRUE, text |-> text]

\* `if query:` -- None and '' are false, every other string is true
Truthy(q) == q.given /\ q.text # <<>>

\* .filter(relevance__gte=0)
RelevanceFilterGte(rows) == {r \in rows : r.relevance >= 0}

\* .filter(relevance__gt=0)
RelevanceFilter(rows) == {r \in rows : r.relevance > 0}

\* notes.annotate(relevance=...).filter(relevance__gt=0)
Searched(rows, query) ==
    RelevanceFilter(
        {[pk |-> r.pk, avg_rating |-> r.avg_rating, comment_count |-> r.comment_count,
          relevance |-> Relevance(notes[r.pk], query)] : r \in rows})

----------------------------------------------------------------------------
(* order_by *)

Desc(f) == [field |-> f, desc |-> TRUE]
Asc(f) == [field |-> f, desc |-> FALSE]

\* a < b for two averages in a database that orders NULL after every value
AvgLessNullsHigh(a, b) ==
    IF b.null THEN ~a.null
    ELSE ~a.null /\ a.num * b.den < b.num * a.den

\* a < b for two averages; SQLite orders NULL before every value
AvgLess(a, b) ==
    IF a.null THEN ~b.null
    ELSE ~b.null /\ a.num * b.den < b.num * a.den

\* a < b on one ordering field
FieldLess(f, a, b) ==
    CASE f = "relevance" -> a.relevance < b.relevance
      [] f = "avg_rating" -> AvgLess(a.avg_rating, b.avg_rating)
      [] f = "created_at" -> notes[a.pk].created_at < notes[b.pk].created_at
      [] f = "view_count" -> notes[a.pk].view_count < notes[b.pk].view_count

\* row a must come before row b on key k
KeyBefore(k, a, b) ==
    IF k.desc THEN FieldLess(k.field, b, a) ELSE FieldLess(k.field, a, b)

\* row a must come before row b under ORDER BY ordering
Before(ordering, a, b) ==
    \E i \in 1..Len(ordering) :
        /\ KeyBefore(ordering[i], a, b)
        /\ \A j \in 1..(i - 1) :
              ~KeyBefore(ordering[j], a, b) /\ ~KeyBefore(ordering[j], b, a)

Sorted(s, ordering) ==
    \A i \in 1..Len(s) : \A j \in (i + 1)..Len(s) : ~Before(ordering, s[j], s[i])

\* every row of the set once, in some order
Arrangements(rows) ==
    {s \in [1..Cardinality(rows) -> rows] : \A i, j \in DOMAIN s : s[i] = s[j] => i = j}

\* The result lists the database may return for ORDER BY ordering: rows that
\* compare equal on every key come in an order the database chooses.
OrderBy(rows, ordering) == {s \in Arrangements(rows) : Sorted(s, ordering)}

\* .order_by('-relevance', '-created_at')
SearchOrderingNoRating == <<Desc("relevance"), Desc("created_at")>>

\* .order_by('-relevance', '-avg_rating', '-created_at')
SearchOrdering == <<Desc("relevance"), Desc("avg_rating"), Desc("created_at")>>

\* home with `elif sort_by == 'recent'` as one more override
OrderingRecentOverrides(query, sort_by) ==
    IF sort_by = "oldest" THEN <<Asc("created_at")>>
    ELSE IF sort_by = "most_viewed" THEN <<Desc("view_count")>>
    ELSE IF sort_by = "top_rated" THEN <<Desc("avg_rating")>>
    ELSE IF sort_by = "recent" \/ ~Truthy(query) THEN <<Desc("created_at")>>
    ELSE SearchOrdering

\* home with 'oldest' ordered by '-created_at'
OrderingOldestDescending(query, sort_by) ==
    IF sort_by = "oldest" THEN <<Desc("created_at")>>
    ELSE IF sort_by = "most_viewed" THEN <<Desc("view_count")>>
    ELSE IF sort_by = "top_rated" THEN <<Desc("avg_rating")>>
    ELSE IF ~Truthy(query) THEN <<Desc("created_at")>>
    ELSE SearchOrdering

\* home with the last branch taken for 'recent' only: another key orders nothing
OrderingNoFallback(query, sort_by) ==
    IF sort_by = "oldest" THEN <<Asc("created_at")>>
    ELSE IF sort_by = "most_viewed" THEN <<Desc("view_count")>>
    ELSE IF sort_by = "top_rated" THEN <<Desc("avg_rating")>>
    ELSE IF ~Truthy(query) /\ sort_by = "recent" THEN <<Desc("created_at")>>
    ELSE IF ~Truthy(query) THEN <<>>
    ELSE SearchOrdering

\* The ordering home ends with: a later order_by replaces an earlier one.
Ordering(query, sort_by) ==
    IF sort_by = "oldest" THEN <<Asc("created_at")>>
    ELSE IF sort_by = "most_viewed" THEN <<Desc("view_count")>>
    ELSE IF sort_by = "top_rated" THEN <<Desc("avg_rating")>>
    ELSE IF ~Truthy(query) THEN <<Desc("created_at")>>
    ELSE SearchOrdering

\* request.GET.get('sort', 'recent')
NoSort == "<absent>"
SortBy(s) == IF s = NoSort THEN "recent" ELSE s

\* the rows of the notes queryset home hands to the template
Candidates(query) ==
    IF Truthy(query) THEN Searched(Annotated, query.text) ELSE Annotated

\* the result lists home can render for ?q=q&sort=s
Feeds(q, s) == OrderBy(Candidates(q), Ordering(q, SortBy(s)))

Queries ==
    {NoQuery, Given(<<>>), Given(<<" ">>), Given(<<"a">>), Given(<<"M", "A">>)}

SortParams == {NoSort, "recent", "oldest", "most_viewed", "top_rated", "bogus"}

\* tied rows in whatever order, request by request
AnyOrder(feed, ordering) == TRUE

\* The database is SQLite (settings.py DATABASES): one query over one store
\* gives one result; rows that tie on every key come in the order ties.
\* Where ties does not hold a row, the order is chosen with the request.
Place(pk) == CHOOSE i \in DOMAIN ties : ties[i] = pk
Placed == {ties[i] : i \in DOMAIN ties}

InTieOrder(feed, ordering) ==
    \A i \in 1..Len(feed) : \A j \in (i + 1)..Len(feed) :
        IF {feed[i].pk, feed[j].pk} \subseteq Placed
        THEN Before(ordering, feed[i], feed[j]) \/ Place(feed[i].pk) < Place(feed[j].pk)
        ELSE TRUE

\* home counting a view of every note it lists
home_counting(q, s) ==
    /\ \E feed \in Feeds(q, s) :
          /\ InTieOrder(feed, Ordering(q, SortBy(s)))
          /\ response' = [view |-> "home", notes |-> feed, query |-> q,
                          sort_by |-> SortBy(s)]
          /\ notes' = [pk \in DOMAIN notes |->
                          IF \E i \in DOMAIN feed : feed[i].pk = pk
                          THEN [notes[pk] EXCEPT !.view_count = @ + 1]
                          ELSE notes[pk]]
    /\ UNCHANGED <<ratings, comments, seq, viewed, ties, inflight, auth>>

home(q, s) ==
    /\ \E feed \in Feeds(q, s) :
          /\ InTieOrder(feed, Ordering(q, SortBy(s)))
          /\ response' = [view |-> "home", notes |-> feed, query |-> q,
                          sort_by |-> SortBy(s)]
    /\ UNCHANGED <<store, viewed, ties, inflight, auth>>

----------------------------------------------------------------------------
(* States of the store for the feed: every store of at most MaxNotes notes *)

\* NoteForm strips the texts; title is required, the others may be empty.
Titles == {<<"M", "a">>, <<"p", " ", "q">>}
TagTexts == {<<>>, <<"m", "a">>}
Courses == {<<>>, <<"a">>}
Descriptions == {<<"A", "b">>}

NoResponse == [view |-> "none"]

\* Python's None: a column that is NULL, a key the session does not hold
None == "None"

\* The accounts of the two users, verified, with no code pending.
Address(u) == IF u = "max" THEN "max@old" ELSE "bo@old"
Account(email, password) ==
    [email |-> email, password |-> password, verification_code |-> None,
     is_active |-> TRUE, bio |-> ""]
Registered == [u \in Users |-> Account(Address(u), "pw0")]

\* request.session of a browser that has sent nothing yet
Anonymous == "<anonymous>"
SessionKeys == {"s1", "s2"}
NewSession ==
    [user |-> Anonymous, verification_id |-> None, pending_email |-> None,
     step1_verified |-> FALSE, reset_user_id |-> None, code_verified |-> FALSE,
     matched |-> None]    \* history: whose code verify_forgot_code last matched here

\* nothing in flight, nobody in the middle of a code flow, no mail
Quiet ==
    /\ inflight = <<>>
    /\ accounts = Registered
    /\ sessions = [k \in SessionKeys |-> NewSession]
    /\ mail = {}

Note(u, title, course, description, tags, created_at, view_count) ==
    [user |-> u, title |-> title, course |-> course, description |-> description,
     tags |-> tags, created_at |-> created_at, view_count |-> view_count]

\* Stores for the scorer: notes of every text, unrated, created one after
\* the other.
ScoredNotes(n) ==
    {f \in [1..n -> [user : Users, title : Titles, course : Courses,
                     description : Descriptions, tags : TagTexts,
                     created_at : 1..n, view_count : {0}]] :
        \A pk \in 1..n : f[pk].created_at = pk}

InitScore ==
    /\ \E n \in 0..MaxNotes : notes \in ScoredNotes(n)
    /\ ratings = {}
    /\ comments = {}
    /\ seq = [note |-> Cardinality(DOMAIN notes), comment |-> 0]
    /\ viewed = {}
    /\ response = NoResponse
    /\ ties = <<>>
    /\ Quiet

\* one request against each store: the order of tied rows is chosen with it
NextFeed == response = NoResponse /\ \E q \in Queries, s \in SortParams : home(q, s)

SpecScore == InitScore /\ [][NextFeed]_vars

\* Stores for the ordering: notes that differ in title, creation time, view
\* count and rating.  A note is created no earlier than the notes before it.
OrderedNotes(n) ==
    {f \in [1..n -> [user : {"max"}, title : Titles, course : {<<>>},
                     description : {<<>>}, tags : {<<>>},
                     created_at : 1..n, view_count : {0, 1}]] :
        /\ n > 0 => f[1].created_at = 1
        /\ \A pk \in 2..n : f[pk].created_at - f[pk - 1].created_at \in {0, 1}}

InitFeed ==
    /\ \E n \in 0..MaxNotes : notes \in OrderedNotes(n)
    /\ \E rated \in SUBSET (DOMAIN notes) :
          \E score \in [rated -> {1, 2}] :
              ratings = {[note |-> pk, user |-> "bo", score |-> score[pk]] : pk \in rated}
    /\ comments = {}
    /\ seq = [note |-> Cardinality(DOMAIN notes), comment |-> 0]
    /\ viewed = {}
    /\ response = NoResponse
    /\ ties = <<>>
    /\ Quiet

SpecFeed == InitFeed /\ [][NextFeed]_vars

----------------------------------------------------------------------------
(* The views that write the store.  Every user is logged in; u is            *)
(* request.user.                                                             *)

\* After a write the database may return tied rows in another order.
Reorder == ties' \in IF store' = store THEN {ties} ELSE Arrangements(DOMAIN notes')

\* redirect(to); where it leads plays no part in the store
Redirect(to) == [view |-> "redirect"]
NotFound == [view |-> "404"]

\* upload_note, POST with a valid NoteForm.  created_at is the time of the
\* insert (auto_now_add); the clock of the store advances with every upload.
upload_note(u, title, course, description, tags) ==
    /\ seq.note < MaxUploads
    /\ LET pk == seq.note + 1
       IN /\ notes' = [p \in DOMAIN notes \cup {pk} |->
                          IF p = pk
                          THEN Note(u, title, course, description, tags, pk, 0)
                          ELSE notes[p]]
          /\ seq' = [seq EXCEPT !.note = pk]
    /\ response' = Redirect("home")
    /\ UNCHANGED <<ratings, comments, viewed, inflight, auth>>
    /\ Reorder

\* note_detail for note pk; comment_submit is TRUE for a POST that carries a
\* valid comment
note_detail(u, pk, comment_submit) ==
    IF pk \notin DOMAIN notes
    THEN response' = NotFound /\ UNCHANGED <<store, viewed, ties, inflight, auth>>
    ELSE
        /\ comment_submit => seq.comment < MaxComments
        /\ IF <<u, pk>> \notin viewed
           THEN /\ notes' = [notes EXCEPT ![pk].view_count = @ + 1]
                /\ viewed' = viewed \cup {<<u, pk>>}
           ELSE UNCHANGED <<notes, viewed>>
        /\ IF comment_submit
           THEN /\ comments' = comments \cup
                                 {[id |-> seq.comment + 1, post |-> pk, user |-> u]}
                /\ seq' = [seq EXCEPT !.comment = @ + 1]
                /\ response' = Redirect("note_detail")
           ELSE /\ UNCHANGED <<comments, seq>>
                /\ response' = [view |-> "note_detail"]
        /\ UNCHANGED <<ratings, inflight, auth>>
        /\ Reorder

\* rate_note with the posted score; score 0 removes the rating
rate_note(u, pk, method, score) ==
    IF method # "POST"
    THEN response' = Redirect("note_detail") /\ UNCHANGED <<store, viewed, ties, inflight, auth>>
    ELSE IF pk \notin DOMAIN notes
    THEN response' = NotFound /\ UNCHANGED <<store, viewed, ties, inflight, auth>>
    ELSE
        /\ ratings' =
              IF score = 0
              THEN {r \in ratings : ~(r.user = u /\ r.note = pk)}
              ELSE {r \in ratings : ~(r.user = u /\ r.note = pk)}
                       \cup {[note |-> pk, user |-> u, score |-> score]}
        /\ response' = Redirect("note_detail")
        /\ UNCHANGED <<notes, comments, seq, viewed, inflight, auth>>
        /\ Reorder

\* delete_comment without the check of the user
delete_comment_by_anyone(u, id, method) ==
    IF ~\E c \in comments : c.id = id
    THEN response' = NotFound /\ UNCHANGED <<store, viewed, ties, inflight, auth>>
    ELSE
        LET comment == CHOOSE c \in comments : c.id = id
        IN IF method = "POST"
           THEN /\ comments' = comments \ {comment}
                /\ response' = Redirect("note_detail")
                /\ UNCHANGED <<notes, ratings, seq, viewed, inflight, auth>>
                /\ Reorder
           ELSE /\ response' = Redirect("home")
                /\ UNCHANGED <<store, viewed, ties, inflight, auth>>

\* delete_comment for comment id
delete_comment(u, id, method) ==
    IF ~\E c \in comments : c.id = id
    THEN response' = NotFound /\ UNCHANGED <<store, viewed, ties, inflight, auth>>
    ELSE
        LET comment == CHOOSE c \in comments : c.id = id
        IN IF (u = comment.user \/ u = notes[comment.post].user) /\ method = "POST"
           THEN /\ comments' = comments \ {comment}
                /\ response' = Redirect("note_detail")
                /\ UNCHANGED <<notes, ratings, seq, viewed, inflight, auth>>
                /\ Reorder
           ELSE /\ response' = Redirect("home")
                /\ UNCHANGED <<store, viewed, ties, inflight, auth>>

\* a note deleted with nothing else
NoCascade(pk) == UNCHANGED <<ratings, comments>>

\* rows removed with note pk: on_delete=models.CASCADE
Cascade(pk) ==
    /\ ratings' = {r \in ratings : r.note # pk}
    /\ comments' = {c \in comments : c.post # pk}

\* delete_note without the check of the owner
delete_note_by_anyone(u, pk) ==
    IF pk \notin DOMAIN notes
    THEN response' = NotFound /\ UNCHANGED <<store, viewed, ties, inflight, auth>>
    ELSE /\ notes' = [p \in DOMAIN notes \ {pk} |-> notes[p]]
         /\ Cascade(pk)
         /\ response' = Redirect("profile")
         /\ UNCHANGED <<seq, viewed, inflight, auth>>
         /\ Reorder

\* delete_note for note pk
delete_note(u, pk) ==
    IF pk \notin DOMAIN notes
    THEN response' = NotFound /\ UNCHANGED <<store, viewed, ties, inflight, auth>>
    ELSE IF u = notes[pk].user
    THEN /\ notes' = [p \in DOMAIN notes \ {pk} |-> notes[p]]
         /\ Cascade(pk)
         /\ response' = Redirect("profile")
         /\ UNCHANGED <<seq, viewed, inflight, auth>>
         /\ Reorder
    ELSE /\ response' = Redirect("profile")
         /\ UNCHANGED <<store, viewed, ties, inflight, auth>>

Init ==
    /\ notes = <<>>
    /\ ratings = {}
    /\ comments = {}
    /\ seq = [note |-> 0, comment |-> 0]
    /\ viewed = {}
    /\ response = NoResponse
    /\ ties \in Arrangements(DOMAIN notes)
    /\ Quiet

Next ==
    \/ \E u \in Users : upload_note(u, <<"M", "a">>, <<>>, <<>>, <<>>)
    \/ \E u \in Users, pk \in 1..MaxUploads, comment_submit \in BOOLEAN :
          note_detail(u, pk, comment_submit)
    \/ \E u \in Users, pk \in 1..MaxUploads, method \in {"GET", "POST"},
          score \in 0..MaxScore :
          rate_note(u, pk, method, score)
    \/ \E u \in Users, id \in 1..MaxComments, method \in {"GET", "POST"} :
          delete_comment(u, id, method)
    \/ \E u \in Users, pk \in 1..MaxUploads : delete_note(u, pk)
    \/ \E q \in {NoQuery, Given(<<"a">>)}, s \in {NoSort, "top_rated"} : home(q, s)

Spec == Init /\ [][Next]_vars

\* Two notes of max, uploaded together or one after the other, each rated by
\* bo or not; the feed is requested again and again, with first views by bo
\* in between.
InitHome ==
    /\ \E second \in {1, 2} :
          notes = [pk \in {1, 2} |->
                      Note("max", <<"M", "a">>, <<>>, <<>>, <<>>,
                           IF pk = 1 THEN 1 ELSE second, 0)]
    /\ \E rated \in SUBSET {1, 2} :
          \E score \in [rated -> {1, 2}] :
              ratings = {[note |-> pk, user |-> "bo", score |-> score[pk]] : pk \in rated}
    /\ comments = {}
    /\ seq = [note |-> 2, comment |-> 0]
    /\ viewed = {}
    /\ response = NoResponse
    /\ ties \in Arrangements(DOMAIN notes)
    /\ Quiet

NextHome ==
    \/ \E q \in {NoQuery, Given(<<"a">>)}, s \in {NoSort, "most_viewed", "top_rated"} :
          home(q, s)
    \/ \E pk \in {1, 2} : note_detail("bo", pk, FALSE)

SpecHome == InitHome /\ [][NextHome]_vars

----------------------------------------------------------------------------
(* Requests in steps.  No view runs in a transaction (settings.py sets no   *)
(* ATOMIC_REQUESTS): between two statements of one request the statements   *)
(* of other requests run.  A request in flight has read note pk and holds   *)
(* its copy of the row.                                                      *)

MaxRequests == 2       \* requests in flight together

ServerError == [view |-> "500"]

Held(view, u, pk, pc, arg) ==
    [view |-> view, user |-> u, pk |-> pk, pc |-> pc, note |-> notes[pk],
     seen |-> <<u, pk>> \in viewed, arg |-> arg]

\* a request starts: it takes the first free slot
Begin(r) ==
    /\ Cardinality(DOMAIN inflight) < MaxRequests
    /\ LET free == (1..MaxRequests) \ DOMAIN inflight
           i == CHOOSE k \in free : \A j \in free : k <= j
       IN inflight' = [j \in DOMAIN inflight \cup {i} |->
                          IF j = i THEN r ELSE inflight[j]]

\* the request in slot i moves on to its next statement
Goto(i, pc) == inflight' = [inflight EXCEPT ![i].pc = pc]

\* the request in slot i answers and is over
Done(i, answer) ==
    /\ inflight' = [j \in DOMAIN inflight \ {i} |-> inflight[j]]
    /\ response' = answer

\* the request in slot i, of view `view`, is at statement pc
At(i, view, pc) ==
    i \in DOMAIN inflight /\ inflight[i].view = view /\ inflight[i].pc = pc

\* the Rating row of user u for note pk, if there is one
RatingOf(u, pk) == {x \in ratings : x.user = u /\ x.note = pk}

\* the database keeps unique_together = ('note', 'user') on every INSERT
NoConstraint(u, pk) == FALSE
UniqueTogether(u, pk) == RatingOf(u, pk) # {}

\* rate_note, POST: note = get_object_or_404(Note, pk=pk)
rate_note_get(u, pk, score) ==
    IF pk \notin DOMAIN notes
    THEN response' = NotFound /\ UNCHANGED <<store, viewed, ties, inflight, auth>>
    ELSE /\ Begin(Held("rate_note", u, pk, IF score = 0 THEN "delete" ELSE "get", score))
         /\ UNCHANGED <<store, viewed, response, ties, auth>>

\* Rating.objects.filter(user=request.user, note=note).delete()
rate_note_delete(i) ==
    /\ At(i, "rate_note", "delete")
    /\ ratings' = ratings \ RatingOf(inflight[i].user, inflight[i].pk)
    /\ Done(i, Redirect("note_detail"))
    /\ UNCHANGED <<notes, comments, seq, viewed, auth>>
    /\ Reorder

\* update_or_create, the SELECT of get_or_create; after a refused INSERT
\* get_or_create selects once more and raises if the row is not there
rate_note_select(i) ==
    /\ At(i, "rate_note", "get") \/ At(i, "rate_note", "reget")
    /\ IF RatingOf(inflight[i].user, inflight[i].pk) # {}
       THEN Goto(i, "update") /\ UNCHANGED response
       ELSE IF inflight[i].pc = "get"
       THEN Goto(i, "create") /\ UNCHANGED response
       ELSE Done(i, ServerError)
    /\ UNCHANGED <<store, viewed, ties, auth>>

\* update_or_create, the INSERT of get_or_create.  The database refuses a
\* second row of the pair (IntegrityError, caught by get_or_create) and a
\* row for a note that is gone (not caught).
rate_note_create(i) ==
    /\ At(i, "rate_note", "create")
    /\ LET r == inflight[i]
       IN IF UniqueTogether(r.user, r.pk)
          THEN Goto(i, "reget") /\ UNCHANGED <<store, response, ties>>
          ELSE IF r.pk \notin DOMAIN notes
          THEN Done(i, ServerError) /\ UNCHANGED <<store, ties>>
          ELSE /\ ratings' = ratings \cup
                                {[note |-> r.pk, user |-> r.user, score |-> r.arg]}
               /\ Done(i, Redirect("note_detail"))
               /\ UNCHANGED <<notes, comments, seq>>
               /\ Reorder
    /\ UNCHANGED <<viewed, auth>>

\* update_or_create, the save of the row that was found.  When the row has
\* been deleted since, save() inserts it again or raises, with the version
\* of Django.
rate_note_update(i) ==
    /\ At(i, "rate_note", "update")
    /\ LET r == inflight[i]
       IN \/ /\ RatingOf(r.user, r.pk) # {} \/ r.pk \in DOMAIN notes
             /\ ratings' = (ratings \ RatingOf(r.user, r.pk)) \cup
                              {[note |-> r.pk, user |-> r.user, score |-> r.arg]}
             /\ Done(i, Redirect("note_detail"))
             /\ UNCHANGED <<notes, comments, seq>>
             /\ Reorder
          \/ /\ RatingOf(r.user, r.pk) = {}
             /\ Done(i, ServerError)
             /\ UNCHANGED <<store, ties>>
    /\ UNCHANGED <<viewed, auth>>

\* Model.save() with created_at = DateTimeField(auto_now=True)
SaveStamped(pk, row) ==
    notes' = [p \in DOMAIN notes \cup {pk} |->
                 IF p # pk THEN notes[p] ELSE [row EXCEPT !.created_at = @ + 1]]

\* Model.save() of a copy of row pk: an UPDATE of every column, view_count
\* included, whatever the row holds now.  When the row is gone save() inserts
\* it, and auto_now_add stamps created_at anew.
Save(pk, row) ==
    notes' = [p \in DOMAIN notes \cup {pk} |->
                 IF p # pk THEN notes[p]
                 ELSE IF pk \in DOMAIN notes THEN row
                 ELSE [row EXCEPT !.created_at = seq.note + 1]]

\* note_detail: login_required has loaded the session; note = get_object_or_404
note_detail_get(u, pk, comment_submit) ==
    IF pk \notin DOMAIN notes
    THEN response' = NotFound /\ UNCHANGED <<store, viewed, ties, inflight, auth>>
    ELSE /\ Begin(Held("note_detail", u, pk, "save", comment_submit))
         /\ UNCHANGED <<store, viewed, response, ties, auth>>

\* note_detail, the rest: note.view_count += 1; note.save() when the session
\* read at the start did not hold the key, the comment of a POST, and the
\* session written with the response.
note_detail_save(i) ==
    /\ At(i, "note_detail", "save")
    /\ LET r == inflight[i]
       IN /\ r.arg => seq.comment < MaxComments
          /\ IF ~r.seen
             THEN /\ Save(r.pk, [r.note EXCEPT !.view_count = @ + 1])
                  /\ viewed' = viewed \cup {<<r.user, r.pk>>}
             ELSE UNCHANGED <<notes, viewed>>
          /\ IF r.arg /\ r.pk \notin DOMAIN notes'
             THEN Done(i, ServerError) /\ UNCHANGED <<comments, seq>>
             ELSE IF r.arg
             THEN /\ comments' = comments \cup
                                   {[id |-> seq.comment + 1, post |-> r.pk, user |-> r.user]}
                  /\ seq' = [seq EXCEPT !.comment = @ + 1]
                  /\ Done(i, Redirect("note_detail"))
             ELSE /\ UNCHANGED <<comments, seq>>
                  /\ Done(i, [view |-> "note_detail"])
    /\ UNCHANGED <<ratings, auth>>
    /\ Reorder

\* edit_note, POST with a valid NoteForm that changes the title:
\* note = get_object_or_404; only the owner gets further
edit_note_get(u, pk, title) ==
    IF pk \notin DOMAIN notes
    THEN response' = NotFound /\ UNCHANGED <<store, viewed, ties, inflight, auth>>
    ELSE IF u # notes[pk].user
    THEN response' = Redirect("home") /\ UNCHANGED <<store, viewed, ties, inflight, auth>>
    ELSE /\ Begin(Held("edit_note", u, pk, "save", title))
         /\ UNCHANGED <<store, viewed, response, ties, auth>>

\* edit_note: form.save() puts the form's fields (NoteForm.Meta.fields) into
\* the copy and saves the copy
edit_note_save(i) ==
    /\ At(i, "edit_note", "save")
    /\ Save(inflight[i].pk, [inflight[i].note EXCEPT !.title = inflight[i].arg])
    /\ Done(i, Redirect("note_detail"))
    /\ UNCHANGED <<ratings, comments, seq, viewed, auth>>
    /\ Reorder

\* one note of max, nobody has seen or rated it
InitRequests ==
    /\ notes = [pk \in {1} |-> Note("max", <<"M", "a">>, <<>>, <<>>, <<>>, 1, 0)]
    /\ ratings = {}
    /\ comments = {}
    /\ seq = [note |-> 1, comment |-> 0]
    /\ viewed = {}
    /\ response = NoResponse
    /\ ties = <<1>>
    /\ Quiet

NextRatings ==
    \/ \E u \in Users, score \in 0..MaxScore : rate_note_get(u, 1, score)
    \/ \E i \in 1..MaxRequests : rate_note_delete(i)
    \/ \E i \in 1..MaxRequests : rate_note_select(i)
    \/ \E i \in 1..MaxRequests : rate_note_create(i)
    \/ \E i \in 1..MaxRequests : rate_note_update(i)

SpecRatings == InitRequests /\ [][NextRatings]_vars

\* first views of the one note, interleaved
NextViews ==
    \/ \E u \in Users : note_detail_get(u, 1, FALSE)
    \/ \E i \in 1..MaxRequests : note_detail_save(i)

SpecViews == InitRequests /\ [][NextViews]_vars

\* note_detail in finer steps.  @login_required reads the session, which is
\* cached for the request, before the body of the view runs.
note_detail_session(u, pk) ==
    IF pk \notin DOMAIN notes
    THEN response' = NotFound /\ UNCHANGED <<store, viewed, ties, inflight, auth>>
    ELSE /\ Begin(Held("note_detail", u, pk, "get", FALSE))
         /\ UNCHANGED <<store, viewed, response, ties, auth>>

\* note = get_object_or_404(Note, pk=pk): the row as the store holds it now
note_detail_load(i) ==
    /\ At(i, "note_detail", "get")
    /\ IF inflight[i].pk \notin DOMAIN notes
       THEN Done(i, NotFound)
       ELSE /\ inflight' = [inflight EXCEPT ![i].pc = "save",
                                            ![i].note = notes[inflight[i].pk]]
            /\ UNCHANGED response
    /\ UNCHANGED <<store, viewed, ties, auth>>

\* views of the one note; a user's requests share the user's session
NextSession ==
    \/ \E u \in Users : note_detail_session(u, 1)
    \/ \E i \in 1..MaxRequests : note_detail_load(i)
    \/ \E i \in 1..MaxRequests : note_detail_save(i)

SpecSession == InitRequests /\ [][NextSession]_vars

\* a note is uploaded; bo views it, comments on it and rates it while its
\* owner edits it
NextRequests ==
    \/ \E u \in Users : upload_note(u, <<"M", "a">>, <<>>, <<>>, <<>>)
    \/ \E comment_submit \in BOOLEAN : note_detail_get("bo", 1, comment_submit)
    \/ \E i \in 1..MaxRequests : note_detail_save(i)
    \/ \E u \in Users : edit_note_get(u, 1, <<"p", " ", "q">>)
    \/ \E i \in 1..MaxRequests : edit_note_save(i)
    \/ rate_note("bo", 1, "POST", 1)

SpecRequests == Init /\ [][NextRequests]_vars


\* Note 1 is max's, note 2 is bo's.  Both users send edit_note for both
\* notes, each with a title of their own; bo sends delete_note for both
\* notes, and comments on note 1 and rates it.
EditTitle(u) == IF u = "max" THEN <<"p", " ", "q">> ELSE <<"M", "a">>

InitOwner ==
    /\ notes = [pk \in {1, 2} |->
                  Note(IF pk = 1 THEN "max" ELSE "bo", <<"a">>, <<>>, <<>>, <<>>, pk, 0)]
    /\ ratings = {}
    /\ comments = {}
    /\ seq = [note |-> 2, comment |-> 0]
    /\ viewed = {}
    /\ response = NoResponse
    /\ ties = <<1, 2>>
    /\ Quiet

NextOwner ==
    \/ \E u \in Users, pk \in {1, 2} : edit_note_get(u, pk, EditTitle(u))
    \/ \E i \in 1..MaxRequests : edit_note_save(i)
    \/ \E pk \in {1, 2} : delete_note("bo", pk)
    \/ note_detail("bo", 1, TRUE)
    \/ rate_note("bo", 1, "POST", 1)

SpecOwner == InitOwner /\ [][NextOwner]_vars

\* Both users comment on both notes.  bo sends delete_comment as GET and as
\* POST for every comment, max only as GET.
NextComments ==
    \/ \E u \in Users, pk \in {1, 2} : note_detail(u, pk, TRUE)
    \/ \E id \in 1..MaxComments, method \in {"GET", "POST"} :
          delete_comment("bo", id, method)
    \/ \E id \in 1..MaxComments : delete_comment("max", id, "GET")

SpecComments == InitOwner /\ [][NextComments]_vars

----------------------------------------------------------------------------
(* Accounts, sessions and mail.  k is the session key of the request's      *)
(* cookie.                                                                   *)

\* generate_otp() gives a string of six digits; code is what the form posts,
\* None when the POST has no field `code`
Codes == {"111111", "222222"}
Posted == Codes \cup {None}

\* request.user: the user the session is logged in to, if the account exists
RequestUser(k) ==
    IF sessions[k].user \in DOMAIN accounts THEN sessions[k].user ELSE Anonymous

\* where @login_required sends a request without a user
ToLogin == response' = Redirect("login") /\ UNCHANGED <<store, viewed, ties, inflight, auth>>

\* send_email that waits for the delivery before it returns
Delivered(to_email, subject, code) ==
    [to_email |-> to_email, subject |-> subject, code |-> code, attempts |-> 1,
     outcome |-> "sent"]

\* send_email: the thread it starts, which has not run yet
Thread(to_email, subject, code) ==
    [to_email |-> to_email, subject |-> subject, code |-> code, attempts |-> 0,
     outcome |-> "started"]

\* profile.verification_code = code; profile.save()
SetCode(u, code) == accounts' = [accounts EXCEPT ![u].verification_code = code]

\* user.delete(): the rows that go with the user, on_delete=models.CASCADE on
\* Note.user, Comment.user, Rating.user, Comment.post and Rating.note
DeleteUser(u) ==
    LET gone == {pk \in DOMAIN notes : notes[pk].user = u}
    IN /\ accounts' = [v \in DOMAIN accounts \ {u} |-> accounts[v]]
       /\ notes' = [pk \in DOMAIN notes \ gone |-> notes[pk]]
       /\ ratings' = {x \in ratings : x.user # u /\ x.note \notin gone}
       /\ comments' = {c \in comments : c.user # u /\ c.post \notin gone}

\* init_delete_account; otp is what generate_otp() returns
init_delete_account(k, method, otp) ==
    LET u == RequestUser(k)
    IN IF u = Anonymous THEN ToLogin
       ELSE IF method # "POST"
       THEN response' = Redirect("edit_profile")
                /\ UNCHANGED <<store, viewed, ties, inflight, auth>>
       ELSE /\ SetCode(u, otp)
            /\ mail' = mail \cup {Thread(accounts[u].email, "Confirm Deletion", otp)}
            /\ response' = Redirect("verify_delete_account")
            /\ UNCHANGED <<store, viewed, ties, inflight, sessions>>

\* verify_delete_account, POST with `code`
verify_delete_account(k, code) ==
    LET u == RequestUser(k)
    IN IF u = Anonymous THEN ToLogin
       ELSE IF accounts[u].verification_code = code
       THEN /\ sessions' = [sessions EXCEPT ![k] = NewSession]
            /\ viewed' = {v \in viewed : v[1] # u}
            /\ DeleteUser(u)
            /\ response' = Redirect("login")
            /\ UNCHANGED <<seq, inflight, mail>>
            /\ Reorder
       ELSE /\ response' = [view |-> "verify_generic", error |-> "Invalid Code."]
            /\ UNCHANGED <<store, viewed, ties, inflight, auth>>

\* max and bo have logged in (LoginView), each in a browser of their own
LoggedIn ==
    [k \in SessionKeys |-> [NewSession EXCEPT !.user = IF k = "s1" THEN "max" ELSE "bo"]]

\* The note of max is commented on and rated; notes and accounts are deleted.
InitCascade ==
    /\ notes = [pk \in {1} |-> Note("max", <<"M", "a">>, <<>>, <<>>, <<>>, 1, 0)]
    /\ ratings = {}
    /\ comments = {}
    /\ seq = [note |-> 1, comment |-> 0]
    /\ viewed = {}
    /\ response = NoResponse
    /\ ties = <<1>>
    /\ inflight = <<>>
    /\ accounts = Registered
    /\ sessions = LoggedIn
    /\ mail = {}

NextCascade ==
    \/ \E k \in SessionKeys :
          RequestUser(k) # Anonymous /\ note_detail(RequestUser(k), 1, TRUE)
    \/ \E k \in SessionKeys :
          RequestUser(k) # Anonymous /\ rate_note(RequestUser(k), 1, "POST", 1)
    \/ \E k \in SessionKeys :
          RequestUser(k) # Anonymous /\ delete_note(RequestUser(k), 1)
    \/ \E k \in SessionKeys, method \in {"GET", "POST"} :
          init_delete_account(k, method, "111111")
    \/ \E k \in SessionKeys, code \in Posted : verify_delete_account(k, code)

SpecCascade == InitCascade /\ [][NextCascade]_vars

\* Password recovery.  The views are open to everybody; a user id is the
\* username here.

Passwords == {"pw0", "pw1"}

Render(template) == [view |-> template]
Invalid(template, message) == [view |-> template, error |-> message]

\* forgot_password, POST with `username`; otp is what generate_otp() returns
forgot_password(k, name, otp) ==
    IF name \notin DOMAIN accounts
    THEN response' = Invalid("forgot_password", "Username not found.")
             /\ UNCHANGED <<store, viewed, ties, inflight, auth>>
    ELSE /\ SetCode(name, otp)
         /\ mail' = mail \cup {Thread(accounts[name].email, "Reset Password", otp)}
         /\ sessions' = [sessions EXCEPT ![k].reset_user_id = name]
         /\ response' = Redirect("verify_forgot_code")
         /\ UNCHANGED <<store, viewed, ties, inflight>>

\* verify_forgot_code with `code`
verify_forgot_code(k, method, code) ==
    LET user_id == sessions[k].reset_user_id
    IN IF user_id = None
       THEN response' = Redirect("forgot_password")
                /\ UNCHANGED <<store, viewed, ties, inflight, auth>>
       ELSE IF method # "POST"
       THEN response' = Render("verify_generic")
                /\ UNCHANGED <<store, viewed, ties, inflight, auth>>
       ELSE IF user_id \notin DOMAIN accounts
       THEN response' = Redirect("forgot_password")
                /\ UNCHANGED <<store, viewed, ties, inflight, auth>>
       ELSE IF accounts[user_id].verification_code = code
       THEN /\ sessions' = [sessions EXCEPT ![k].code_verified = TRUE,
                                            ![k].matched = user_id]
            /\ SetCode(user_id, None)
            /\ response' = Redirect("reset_new_password")
            /\ UNCHANGED <<store, viewed, ties, inflight, mail>>
       ELSE /\ response' = Invalid("verify_generic", "Invalid Code.")
            /\ UNCHANGED <<store, viewed, ties, inflight, auth>>

\* reset_new_password with `password` and `confirm_password`
reset_new_password(k, method, p1, p2) ==
    IF ~sessions[k].code_verified
    THEN response' = Redirect("forgot_password")
             /\ UNCHANGED <<store, viewed, ties, inflight, auth>>
    ELSE IF method # "POST"
    THEN response' = Render("reset_new_password")
             /\ UNCHANGED <<store, viewed, ties, inflight, auth>>
    ELSE IF p1 # p2
    THEN response' = Invalid("reset_new_password", "Passwords do not match.")
             /\ UNCHANGED <<store, viewed, ties, inflight, auth>>
    ELSE IF sessions[k].reset_user_id \notin DOMAIN accounts
    THEN response' = ServerError /\ UNCHANGED <<store, viewed, ties, inflight, auth>>
    ELSE LET user == sessions[k].reset_user_id
         IN /\ accounts' = [accounts EXCEPT ![user].password = p1]
            /\ sessions' = [sessions EXCEPT ![k].reset_user_id = None,
                                            ![k].code_verified = FALSE]
            /\ mail' = mail \cup {Thread(accounts[user].email, "Security Alert", None)}
            /\ response' = Redirect("login")
            /\ UNCHANGED <<store, viewed, ties, inflight>>

\* Two browsers, nobody logged in, go through the password recovery.
InitReset ==
    /\ notes = <<>>
    /\ ratings = {}
    /\ comments = {}
    /\ seq = [note |-> 0, comment |-> 0]
    /\ viewed = {}
    /\ response = NoResponse
    /\ ties = <<>>
    /\ Quiet

NextReset ==
    \/ \E k \in SessionKeys, name \in Users \cup {"nobody"} :
          forgot_password(k, name, "111111")
    \/ \E k \in SessionKeys, method \in {"GET", "POST"}, code \in Posted :
          verify_forgot_code(k, method, code)
    \/ \E k \in SessionKeys, method \in {"GET", "POST"}, p1, p2 \in Passwords :
          reset_new_password(k, method, p1, p2)

SpecReset == InitReset /\ [][NextReset]_vars

\* Change of the email address, in three requests.

NewEmails == {"x@new", "y@new"}

\* an edit_profile that asks for no password
AnyPassword(u, password) == TRUE

\* password and request.user.check_password(password)
check_password(u, password) == password # None /\ password = accounts[u].password

\* edit_profile, POST with `password`, `bio` and `email` (None when the field
\* is missing or empty).  bio stands for the fields saved with it: the names,
\* the AI instructions and the picture.  otp is what generate_otp() returns.
edit_profile(k, password, bio, new_email, otp) ==
    LET u == RequestUser(k)
    IN IF u = Anonymous THEN ToLogin
       ELSE IF ~check_password(u, password)
       THEN response' = Redirect("edit_profile")
                /\ UNCHANGED <<store, viewed, ties, inflight, auth>>
       ELSE IF new_email # None /\ new_email # accounts[u].email
       THEN /\ sessions' = [sessions EXCEPT ![k].pending_email = new_email]
            /\ accounts' = [accounts EXCEPT ![u].bio = bio,
                                            ![u].verification_code = otp]
            /\ mail' = mail \cup {Thread(accounts[u].email, "Verify Email Change", otp)}
            /\ response' = Redirect("verify_email_change_old")
            /\ UNCHANGED <<store, viewed, ties, inflight>>
       ELSE /\ accounts' = [accounts EXCEPT ![u].bio = bio]
            /\ response' = Redirect("profile")
            /\ UNCHANGED <<store, viewed, ties, inflight, sessions, mail>>

\* verify_email_change_old with `code`; new_otp is what generate_otp() returns
verify_email_change_old(k, method, code, new_otp) ==
    LET u == RequestUser(k)
        pending_email == sessions[k].pending_email
    IN IF u = Anonymous THEN ToLogin
       ELSE IF pending_email = None
       THEN response' = Redirect("edit_profile")
                /\ UNCHANGED <<store, viewed, ties, inflight, auth>>
       ELSE IF method # "POST"
       THEN response' = Render("verify_generic")
                /\ UNCHANGED <<store, viewed, ties, inflight, auth>>
       ELSE IF accounts[u].verification_code = code
       THEN /\ SetCode(u, new_otp)
            /\ sessions' = [sessions EXCEPT ![k].step1_verified = TRUE]
            /\ mail' = mail \cup {Thread(pending_email, "Email Change Step 2", new_otp)}
            /\ response' = Redirect("verify_email_change_new")
            /\ UNCHANGED <<store, viewed, ties, inflight>>
       ELSE /\ response' = Invalid("verify_generic", "Invalid Code.")
            /\ UNCHANGED <<store, viewed, ties, inflight, auth>>

\* verify_email_change_new that does not ask for step 1
verify_email_change_new_unordered(k, method, code) ==
    LET u == RequestUser(k)
        pending_email == sessions[k].pending_email
    IN IF u = Anonymous THEN ToLogin
       ELSE IF pending_email = None
       THEN response' = Redirect("edit_profile")
                /\ UNCHANGED <<store, viewed, ties, inflight, auth>>
       ELSE IF method # "POST"
       THEN response' = Render("verify_generic")
                /\ UNCHANGED <<store, viewed, ties, inflight, auth>>
       ELSE IF accounts[u].verification_code = code
       THEN /\ accounts' = [accounts EXCEPT ![u].email = pending_email,
                                            ![u].verification_code = None]
            /\ sessions' = [sessions EXCEPT ![k].pending_email = None,
                                            ![k].step1_verified = FALSE]
            /\ mail' = mail \cup {Thread(accounts[u].email, "Email Changed", None),
                                  Thread(pending_email, "Verified", None)}
            /\ response' = Redirect("profile")
            /\ UNCHANGED <<store, viewed, ties, inflight>>
       ELSE /\ response' = Invalid("verify_generic", "Invalid Code.")
            /\ UNCHANGED <<store, viewed, ties, inflight, auth>>

\* verify_email_change_new with `code`
verify_email_change_new(k, method, code) ==
    LET u == RequestUser(k)
        pending_email == sessions[k].pending_email
    IN IF u = Anonymous THEN ToLogin
       ELSE IF pending_email = None \/ ~sessions[k].step1_verified
       THEN response' = Redirect("edit_profile")
                /\ UNCHANGED <<store, viewed, ties, inflight, auth>>
       ELSE IF method # "POST"
       THEN response' = Render("verify_generic")
                /\ UNCHANGED <<store, viewed, ties, inflight, auth>>
       ELSE IF accounts[u].verification_code = code
       THEN /\ accounts' = [accounts EXCEPT ![u].email = pending_email,
                                            ![u].verification_code = None]
            /\ sessions' = [sessions EXCEPT ![k].pending_email = None,
                                            ![k].step1_verified = FALSE]
            /\ mail' = mail \cup {Thread(accounts[u].email, "Email Changed", None),
                                  Thread(pending_email, "Verified", None)}
            /\ response' = Redirect("profile")
            /\ UNCHANGED <<store, viewed, ties, inflight>>
       ELSE /\ response' = Invalid("verify_generic", "Invalid Code.")
            /\ UNCHANGED <<store, viewed, ties, inflight, auth>>

\* max and bo, logged in, change their addresses.  The code for the old
\* address is 111111, the code for the new one 222222.
InitEmail ==
    /\ notes = <<>>
    /\ ratings = {}
    /\ comments = {}
    /\ seq = [note |-> 0, comment |-> 0]
    /\ viewed = {}
    /\ response = NoResponse
    /\ ties = <<>>
    /\ inflight = <<>>
    /\ accounts = Registered
    /\ sessions = LoggedIn
    /\ mail = {}

NextEmail ==
    \/ \E k \in SessionKeys, password \in {"pw0", "pw1", None},
          new_email \in NewEmails \cup {None} :
          edit_profile(k, password, "", new_email, "111111")
    \/ \E k \in SessionKeys, method \in {"GET", "POST"}, code \in Posted :
          verify_email_change_old(k, method, code, "222222")
    \/ \E k \in SessionKeys, method \in {"GET", "POST"}, code \in Posted :
          verify_email_change_new(k, method, code)

SpecEmail == InitEmail /\ [][NextEmail]_vars

\* All the flows that store a code in Profile.verification_code, side by
\* side.  generate_otp() draws from 900000 values; each flow is given a code
\* of its own here, so that a stored code names the flow that issued it.
\* max (s1) changes the address, bo (s2) asks for password resets, both may
\* delete their accounts.
OtpEmailStep1 == "111111"
OtpEmailStep2 == "222222"
OtpDeletion   == "333333"
OtpReset      == "444444"
FlowCodes == {OtpEmailStep1, OtpEmailStep2, OtpDeletion, OtpReset}

NextCodes ==
    \/ edit_profile("s1", "pw0", "", "x@new", OtpEmailStep1)
    \/ \E code \in FlowCodes :
          verify_email_change_old("s1", "POST", code, OtpEmailStep2)
    \/ \E code \in FlowCodes : verify_email_change_new("s1", "POST", code)
    \/ \E k \in SessionKeys : init_delete_account(k, "POST", OtpDeletion)
    \/ \E k \in SessionKeys, code \in FlowCodes : verify_delete_account(k, code)
    \/ \E name \in Users : forgot_password("s2", name, OtpReset)
    \/ \E code \in FlowCodes : verify_forgot_code("s2", "POST", code)

SpecCodes == InitEmail /\ [][NextCodes]_vars

\* Registration.  An account made by register is known by its id, the
\* primary key the database gives it and never gives again (seq.user); max
\* and bo are known by their names.

MaxRegistrations == 2      \* user rows inserted by register in a run
NewNames == {"zed", "zoe"}

\* User.id as the session and the model hold it
UserId(n) == ToString(n)

\* a register that leaves is_active as django.contrib.auth creates it
ActiveUser(name, email, code) ==
    [username |-> name, email |-> email, password |-> "pw1",
     verification_code |-> code, is_active |-> TRUE, bio |-> ""]

\* the User and its Profile as register saves them
NewUser(name, email, code) ==
    [username |-> name, email |-> email, password |-> "pw1",
     verification_code |-> code, is_active |-> FALSE, bio |-> ""]

UsernameOf(id) == IF id \in Users THEN id ELSE accounts[id].username

\* User.objects.filter(username=username, is_active=False)
Unverified(name) ==
    {id \in DOMAIN accounts : UsernameOf(id) = name /\ ~accounts[id].is_active}

\* register.  valid: the two forms are valid but for the uniqueness of the
\* username, which is looked up after the cleanup; raises: an exception in
\* the try block after user.save().  otp is what generate_otp() returns.
\* An unverified account has never logged in and owns no row of the store.
register(k, method, name, email, valid, otp, raises) ==
    IF method # "POST"
    THEN response' = Render("register")
             /\ UNCHANGED <<store, viewed, ties, inflight, auth>>
    ELSE LET kept == [id \in DOMAIN accounts \ Unverified(name) |-> accounts[id]]
             taken == \E id \in DOMAIN kept : UsernameOf(id) = name
             id == UserId(seq.user + 1)
         IN IF ~valid \/ taken
            THEN /\ accounts' = kept
                 /\ response' = Invalid("register", "form errors")
                 /\ UNCHANGED <<store, viewed, ties, inflight, sessions, mail>>
            ELSE /\ seq.user < MaxRegistrations
                 /\ seq' = [seq EXCEPT !.user = @ + 1]
                 /\ IF raises
                    THEN /\ accounts' = kept
                         /\ response' = Invalid("register", "Registration Error.")
                         /\ UNCHANGED <<sessions, mail>>
                    ELSE /\ accounts' = [i \in DOMAIN kept \cup {id} |->
                                           IF i = id THEN NewUser(name, email, otp)
                                           ELSE kept[i]]
                         /\ mail' = mail \cup {Thread(email, "Verify Your Account", otp)}
                         /\ sessions' = [sessions EXCEPT ![k].verification_id = id]
                         /\ response' = Redirect("verify_email")
                 /\ UNCHANGED <<notes, ratings, comments, viewed, inflight>>
                 /\ Reorder

\* user.profile.verification_code == code
Matches(id, code) == accounts[id].verification_code = code

\* verify_email with `code`.  login() flushes a session that is logged in to
\* another user, and `del request.session['verification_id']` then raises
\* KeyError; the session of a response 500 is not saved.
verify_email(k, method, code) ==
    LET user_id == sessions[k].verification_id
    IN IF method # "POST"
       THEN response' = Render("verify_generic")
                /\ UNCHANGED <<store, viewed, ties, inflight, auth>>
       ELSE IF user_id = None
       THEN response' = Redirect("login")
                /\ UNCHANGED <<store, viewed, ties, inflight, auth>>
       ELSE IF user_id \notin DOMAIN accounts
       THEN response' = Redirect("register")
                /\ UNCHANGED <<store, viewed, ties, inflight, auth>>
       ELSE IF Matches(user_id, code)
       THEN /\ accounts' = [accounts EXCEPT ![user_id].is_active = TRUE,
                                            ![user_id].verification_code = None]
            /\ mail' = mail \cup
                  {Thread(accounts[user_id].email, "Security Alert: New Login", None),
                   Thread(accounts[user_id].email, "Welcome!", None)}
            /\ IF RequestUser(k) \in {Anonymous, user_id}
               THEN /\ sessions' = [sessions EXCEPT ![k].user = user_id,
                                                    ![k].verification_id = None]
                    /\ response' = Redirect("home")
               ELSE /\ response' = ServerError
                    /\ UNCHANGED sessions
            /\ UNCHANGED <<store, viewed, ties, inflight>>
       ELSE /\ response' = Invalid("verify_generic", "Invalid Code.")
            /\ UNCHANGED <<store, viewed, ties, inflight, auth>>

\* Two browsers register names and verify them; max and bo have accounts.
InitRegister ==
    /\ notes = <<>>
    /\ ratings = {}
    /\ comments = {}
    /\ seq = [note |-> 0, comment |-> 0, user |-> 0]
    /\ viewed = {}
    /\ response = NoResponse
    /\ ties = <<>>
    /\ Quiet

NextRegister ==
    \/ \E k \in SessionKeys : register(k, "GET", "zed", "x@new", TRUE, "111111", FALSE)
    \/ \E k \in SessionKeys, name \in NewNames \cup {"max"}, email \in NewEmails,
          valid \in BOOLEAN :
          \E raises \in IF valid THEN BOOLEAN ELSE {FALSE} :
             register(k, "POST", name, email, valid, "111111", raises)
    \/ \E k \in SessionKeys, method \in {"GET", "POST"}, code \in Posted :
          verify_email(k, method, code)

SpecRegister == InitRegister /\ [][NextRegister]_vars

\* max (s1) edits the profile with the right password and goes through the
\* change of address; bo (s2) posts the same forms with a wrong password or
\* with none.
Bios == {"hi", "yo"}

NextProfile ==
    \/ \E bio \in Bios, new_email \in NewEmails \cup {None} :
          edit_profile("s1", "pw0", bio, new_email, "111111")
    \/ \E password \in {"pw1", None}, bio \in Bios, new_email \in NewEmails \cup {None} :
          edit_profile("s2", password, bio, new_email, "111111")
    \/ \E k \in SessionKeys, code \in Posted :
          verify_email_change_old(k, "POST", code, "222222")
    \/ \E k \in SessionKeys, code \in Posted : verify_email_change_new(k, "POST", code)

SpecProfile == InitEmail /\ [][NextProfile]_vars

\* The thread of an email runs: one call of send_transac_email, which
\* succeeds or raises (an ApiException is printed); then the thread is over.
_send_brevo_task(t, outcome) ==
    /\ t \in mail /\ t.attempts = 0
    /\ mail' = (mail \ {t}) \cup {[t EXCEPT !.attempts = @ + 1, !.outcome = outcome]}
    /\ UNCHANGED <<store, viewed, response, ties, inflight, accounts, sessions>>

\* Deletion codes are requested and their emails are delivered, or not.
NextMail ==
    \/ \E k \in SessionKeys, method \in {"GET", "POST"}, otp \in Codes :
          init_delete_account(k, method, otp)
    \/ \E t \in mail, outcome \in {"sent", "failed"} : _send_brevo_task(t, outcome)

SpecMail == InitCascade /\ [][NextMail]_vars

----------------------------------------------------------------------------
(* The feed of a home response *)

IsFeed == response.view = "home"
Feed == response.notes
FeedPks == {Feed[i].pk : i \in 1..Len(Feed)}
Searching == IsFeed /\ Truthy(response.query)

\* text t occurs in text f, letters compared without regard to case
OccursIn(t, f) ==
    \E skip \in 0..(Len(f) - Len(t)) :
        \A k \in 1..Len(t) : Fold(f[skip + k]) = Fold(t[k])

ScoredFields == {"title", "tags", "course", "username", "description"}

FieldText(n, f) ==
    CASE f = "title" -> n.title
      [] f = "tags" -> n.tags
      [] f = "course" -> n.course
      [] f = "username" -> username(n.user)
      [] f = "description" -> n.description

Weight(f) ==
    CASE f = "title" -> 10
      [] f = "tags" -> 8
      [] f = "course" -> 6
      [] f = "username" -> 4
      [] f = "description" -> 2

RECURSIVE WeightSum(_)
WeightSum(fields) ==
    IF fields = {} THEN 0
    ELSE LET f == CHOOSE x \in fields : TRUE IN Weight(f) + WeightSum(fields \ {f})

MatchingFields(n, t) == {f \in ScoredFields : OccursIn(t, FieldText(n, f))}

\* the score the scorer's contract gives note n for term t
Score(n, t) == WeightSum(MatchingFields(n, t))

\* C1: for a non-empty search term, the relevance home attaches to a note is
\* the sum of the weights of exactly the fields that contain the term without
\* regard to case (title 10, tags 8, course 6, owner username 4, description
\* 2); a note absent from the feed has no matching field.
C1_RelevanceIsWeightSum ==
    Searching =>
        \A pk \in DOMAIN notes :
            LET score == Score(notes[pk], response.query.text)
            IN \/ \E i \in 1..Len(Feed) : Feed[i].pk = pk /\ Feed[i].relevance = score
               \/ pk \notin FeedPks /\ score = 0

\* a search whose feed holds a note matched in all five fields and a note
\* matched in some but not all
C1_Witness ==
    /\ Searching
    /\ \E i, j \in 1..Len(Feed) :
          /\ Feed[i].relevance = 30
          /\ Feed[j].relevance \in {12, 18, 20}

\* C2: for a non-empty search term the feed holds exactly the notes whose
\* score is positive, each once.
C2_FeedIsPositiveScores ==
    Searching =>
        /\ FeedPks = {pk \in DOMAIN notes : Score(notes[pk], response.query.text) > 0}
        /\ Len(Feed) = Cardinality(FeedPks)

\* a search that keeps one note and drops another
C2_Witness ==
    /\ Searching
    /\ Len(Feed) = 1
    /\ \E pk \in DOMAIN notes : pk \notin FeedPks

----------------------------------------------------------------------------
(* The order of a feed *)

created_at(row) == notes[row.pk].created_at
view_count(row) == notes[row.pk].view_count

\* rating a is at least rating b, a missing rating being the lowest
RatingGeq(a, b) == b.null \/ (~a.null /\ a.num * b.den >= b.num * a.den)
RatingEq(a, b) == RatingGeq(a, b) /\ RatingGeq(b, a)

\* relevance, then rating, then creation time, each non-increasing
SearchOrdered(feed) ==
    \A i, j \in 1..Len(feed) :
        i < j =>
            /\ feed[i].relevance >= feed[j].relevance
            /\ feed[i].relevance = feed[j].relevance =>
                  /\ RatingGeq(feed[i].avg_rating, feed[j].avg_rating)
                  /\ RatingEq(feed[i].avg_rating, feed[j].avg_rating) =>
                        created_at(feed[i]) >= created_at(feed[j])

\* ordered by the sort key sort_by alone
KeyOrdered(feed, sort_by) ==
    \A i, j \in 1..Len(feed) :
        i < j =>
            CASE sort_by = "oldest" -> created_at(feed[i]) <= created_at(feed[j])
              [] sort_by = "most_viewed" -> view_count(feed[i]) >= view_count(feed[j])
              [] sort_by = "top_rated" -> RatingGeq(feed[i].avg_rating, feed[j].avg_rating)
              [] OTHER -> created_at(feed[i]) >= created_at(feed[j])

\* the sort keys whose order_by replaces the order of the search
Overriding == {"oldest", "most_viewed", "top_rated"}

\* C3 as stated: whenever a search term is active, for every sort key, the
\* feed is in non-increasing relevance, then rating, then creation time.
\* Rows that tie on the keys of the query are taken in the order that suits
\* the claim best, so that no violation rests on how the database orders them.
C3_SearchOrderedForEveryKey ==
    Searching =>
        \E feed \in Feeds(response.query, response.sort_by) : SearchOrdered(feed)

\* C3, amended: with a search term and a sort key that is absent, recent or
\* not recognised, the feed is in non-increasing relevance, then rating, then
\* creation time; with oldest, most_viewed or top_rated it is ordered by that
\* key alone.
C3_SearchOrdered ==
    Searching =>
        IF response.sort_by \in Overriding
        THEN KeyOrdered(Feed, response.sort_by)
        ELSE SearchOrdered(Feed)

\* a search where the rating decides between two notes of equal relevance,
\* against their creation times
C3_Witness ==
    /\ Searching
    /\ response.sort_by = "recent"
    /\ Len(Feed) = 2
    /\ Feed[1].relevance = Feed[2].relevance
    /\ ~Feed[1].avg_rating.null /\ ~Feed[2].avg_rating.null
    /\ ~RatingGeq(Feed[2].avg_rating, Feed[1].avg_rating)
    /\ created_at(Feed[1]) < created_at(Feed[2])

\* feed holds the rows the search for q selects, each once; the sort key has
\* no part in the selection
SameNotes(feed, q) ==
    /\ {feed[i] : i \in 1..Len(feed)} = Candidates(q)
    /\ Len(feed) = Cardinality(Candidates(q))

\* feed is in an order home can give the result for ?q=q&sort=k
InOrderOf(feed, q, k) == Sorted(feed, Ordering(q, SortBy(k)))

\* C4 as stated: with a search term the feed is the same for every sort key.
\* Ties are again taken in the claim's favour: two keys agree when the
\* database can answer both with one and the same feed.
C4_SortKeyIgnored ==
    Searching =>
        \A k \in SortParams :
            Feeds(response.query, response.sort_by) \cap Feeds(response.query, k) # {}

\* C4, amended: with a search term every sort key selects the same notes, and
\* the keys absent, recent and not recognised give the same feed (the order
\* of the search); oldest, most_viewed and top_rated reorder it.
C4_SortKeyIgnoredUnlessOverriding ==
    Searching =>
        /\ SameNotes(Feed, response.query)
        /\ response.sort_by \notin Overriding =>
              \A k \in SortParams \ Overriding : InOrderOf(Feed, response.query, k)

\* a search with an unrecognised key whose two notes differ in relevance, the
\* more relevant one being the older
C4_Witness ==
    /\ Searching
    /\ response.sort_by = "bogus"
    /\ Len(Feed) = 2
    /\ Feed[1].relevance > Feed[2].relevance
    /\ created_at(Feed[1]) < created_at(Feed[2])

\* no unrated note before a rated one among the rows that satisfy same
UnratedLast(feed, same(_, _)) ==
    \A i, j \in 1..Len(feed) :
        (i < j /\ same(feed[i], feed[j]) /\ feed[i].avg_rating.null)
            => feed[j].avg_rating.null

SameRelevance(a, b) == a.relevance = b.relevance
AnyTwo(a, b) == TRUE

\* C5 as stated: in every search an unrated note comes after every rated note
\* of the same relevance, and in top_rated mode after every rated note.
\* Ties are taken in the claim's favour.
C5_UnratedLastInEverySearch ==
    /\ Searching =>
          \E feed \in Feeds(response.query, response.sort_by) :
              UnratedLast(feed, SameRelevance)
    /\ (IsFeed /\ response.sort_by = "top_rated") => UnratedLast(Feed, AnyTwo)

\* C5, amended: an unrated note sorts as the lowest rating: in a search whose
\* sort key is not oldest or most_viewed it comes after every rated note of
\* the same relevance, and in top_rated mode after every rated note.
C5_UnratedLast ==
    /\ (Searching /\ response.sort_by \notin {"oldest", "most_viewed"})
          => UnratedLast(Feed, SameRelevance)
    /\ (IsFeed /\ response.sort_by = "top_rated") => UnratedLast(Feed, AnyTwo)

\* a search that puts a rated note before a newer unrated one of the same
\* relevance
C5_Witness ==
    /\ Searching
    /\ response.sort_by = "recent"
    /\ Len(Feed) = 2
    /\ Feed[1].relevance = Feed[2].relevance
    /\ ~Feed[1].avg_rating.null /\ Feed[2].avg_rating.null
    /\ created_at(Feed[1]) < created_at(Feed[2])

\* C6: without a search term the feed is ordered by the sort key: recent (also
\* when no key is given) by non-increasing creation time, oldest by
\* non-decreasing creation time, most_viewed by non-increasing view count,
\* top_rated by non-increasing rating.
C6_OrderedBySortKey ==
    (IsFeed /\ ~Truthy(response.query)
        /\ response.sort_by \in {"recent", "oldest", "most_viewed", "top_rated"})
        => KeyOrdered(Feed, response.sort_by)

\* a feed without a search term whose key puts an older note first
C6_Witness ==
    /\ IsFeed /\ response.query = Given(<<>>)
    /\ response.sort_by \in {"oldest", "most_viewed"}
    /\ Len(Feed) = 2
    /\ created_at(Feed[1]) < created_at(Feed[2])
    /\ view_count(Feed[1]) > view_count(Feed[2])

\* C7: without a search term the feed holds every note of the store exactly
\* once, whatever the sort key; an empty store gives an empty feed.
C7_FeedIsAllNotes ==
    (IsFeed /\ ~Truthy(response.query)) =>
        /\ FeedPks = DOMAIN notes
        /\ Len(Feed) = Cardinality(DOMAIN notes)

\* a feed without a search term over a store of several notes, rated and not
C7_Witness ==
    /\ IsFeed /\ response.query = NoQuery
    /\ response.sort_by = "top_rated"
    /\ Len(Feed) >= 2
    /\ \E i, j \in 1..Len(Feed) : Feed[i].avg_rating.null /\ ~Feed[j].avg_rating.null

\* a text of blanks only
Blank(text) == text # <<>> /\ \A i \in 1..Len(text) : text[i] = " "

\* C8: for a search term of blanks only no note is filtered out, and the feed
\* is the one of the empty term: every note, ordered by the sort key.
C8_BlankTermNotSearched ==
    (IsFeed /\ response.query.given /\ Blank(response.query.text)) =>
        /\ FeedPks = DOMAIN notes
        /\ SameNotes(Feed, Given(<<>>))
        /\ InOrderOf(Feed, Given(<<>>), response.sort_by)

\* C9: without a search term a sort key that is not recognised gives the feed
\* of recent.
C9_UnknownKeyIsRecent ==
    (IsFeed /\ ~Truthy(response.query) /\ response.sort_by = "bogus") =>
        /\ SameNotes(Feed, response.query)
        /\ InOrderOf(Feed, response.query, "recent")
        /\ KeyOrdered(Feed, "recent")

\* a feed for an unrecognised key over two notes created at different times
C9_Witness ==
    /\ IsFeed /\ response.query = Given(<<>>)
    /\ response.sort_by = "bogus"
    /\ Len(Feed) = 2
    /\ created_at(Feed[1]) > created_at(Feed[2])

----------------------------------------------------------------------------
(* The aggregates of a feed *)

RatingsOf(pk) == {r \in ratings : r.note = pk}
CommentsOf(pk) == {c \in comments : c.post = pk}

RECURSIVE ScoreTotal(_)
ScoreTotal(rows) ==
    IF rows = {} THEN 0
    ELSE LET r == CHOOSE x \in rows : TRUE IN r.score + ScoreTotal(rows \ {r})

\* avg is the mean of the scores of rows, and missing when there are none
IsMean(avg, rows) ==
    IF rows = {} THEN avg.null
    ELSE ~avg.null /\ avg.num * Cardinality(rows) = ScoreTotal(rows) * avg.den

\* C10: after any sequence of rate_note, comment creation, delete_comment and
\* delete_note, the feed gives every note the mean of its current rating
\* scores (none when it has no rating) and the number of its current comments.
C10_AggregatesFromCurrentRows ==
    IsFeed =>
        \A i \in 1..Len(Feed) :
            /\ IsMean(Feed[i].avg_rating, RatingsOf(Feed[i].pk))
            /\ Feed[i].comment_count = Cardinality(CommentsOf(Feed[i].pk))

----------------------------------------------------------------------------
(* Ratings under concurrent rate_note requests *)

AtMostOneRating ==
    \A x, y \in ratings : x.user = y.user /\ x.note = y.note => x = y

\* the step in which the request in slot i answers with its redirect
Answers(i) ==
    i \in DOMAIN inflight /\ i \notin DOMAIN inflight' /\ response'.view = "redirect"

----------------------------------------------------------------------------
(* The view count under concurrent requests *)

\* C12: view_count only grows: under every interleaving of note_detail,
\* edit_note and rate_note requests on a note, no step lowers the view_count
\* the store holds for it.
C12_ViewCountNeverLowered ==
    [][\A pk \in DOMAIN notes \cap DOMAIN notes' :
          notes'[pk].view_count >= notes[pk].view_count]_vars

\* the sessions that hold viewed_note_<pk>: each has completed a first view
Viewers(pk) == {u \in Users : <<u, pk>> \in viewed}

\* C13: no increment is lost: when k sessions that had not viewed note pk
\* have each completed note_detail, in any interleaving, its view_count is k
\* higher than before (it was 0), so never below the number of such sessions.
C13_NoIncrementLost ==
    \A pk \in DOMAIN notes : notes[pk].view_count >= Cardinality(Viewers(pk))

----------------------------------------------------------------------------
(* home reads and does not write *)

\* C14: a home request leaves every Note (its view_count included), every
\* Rating and every Comment as it was.
C14_HomeWritesNothing ==
    [][response'.view = "home" => UNCHANGED <<notes, ratings, comments>>]_vars

\* home has answered over a store with a viewed note and a rating
C14_Witness ==
    /\ IsFeed /\ Len(Feed) > 0
    /\ ratings # {}
    /\ \E pk \in DOMAIN notes : notes[pk].view_count > 0

----------------------------------------------------------------------------
(* What a note keeps for life *)

\* C16: the owner of a note is set when it is created and is never changed:
\* no step of edit_note, note_detail (a comment included) or rate_note
\* changes note.user; the id and created_at of a note never change either (a
\* new row takes a primary key no row had before).
C16_OwnerIdCreatedAtKept ==
    [][/\ \A pk \in DOMAIN notes \cap DOMAIN notes' :
             /\ notes'[pk].user = notes[pk].user
             /\ notes'[pk].created_at = notes[pk].created_at
       /\ \A pk \in DOMAIN notes' \ DOMAIN notes :
             pk > seq.note /\ notes'[pk].user \in Users]_vars

\* the note has been edited by its owner, viewed, commented on and rated
C16_Witness ==
    /\ 1 \in DOMAIN notes
    /\ notes[1].title = <<"p", " ", "q">>
    /\ notes[1].view_count > 0
    /\ \E c \in comments : c.post = 1
    /\ \E x \in ratings : x.note = 1

----------------------------------------------------------------------------
(* Deletion *)

\* C17: after any sequence of operations, delete_note and the deletion of an
\* account included, every Comment and every Rating refers to a note that
\* exists.
C17_NoOrphans ==
    /\ \A c \in comments : c.post \in DOMAIN notes
    /\ \A x \in ratings : x.note \in DOMAIN notes

\* the account of max has been deleted, and with it the note that bo had
\* commented on
C17_Witness ==
    /\ "max" \notin DOMAIN accounts /\ "bo" \in DOMAIN accounts
    /\ notes = <<>>
    /\ seq.comment > 0
    /\ comments = {}

----------------------------------------------------------------------------
(* Email *)

\* the threads a step starts
Started == {t \in mail' \ mail : t.attempts = 0}

\* C18: email is fire-and-forget.  The request that sends an email starts
\* one thread and answers while the thread has not run; a thread makes at
\* most one delivery attempt, and is over after it; the delivery, whether it
\* succeeds or fails, changes nothing but the thread, so what the request
\* answered and wrote is the same in each case.
C18_FireAndForget ==
    /\ [](\A t \in mail : t.attempts <= 1)
    /\ [][/\ Cardinality(Started) <= 1
          /\ \A t \in Started : t.outcome = "started" /\ response'.view = "redirect"
          /\ \A t \in (mail' \ mail) \ Started :
                [t EXCEPT !.attempts = 0, !.outcome = "started"] \in mail
          /\ \A t \in mail : t.attempts = 1 => t \in mail'
          /\ (\E t \in mail : t \notin mail') =>
                UNCHANGED <<store, viewed, response, accounts, sessions>>]_vars

\* the code has been stored and the request has answered; the email of one
\* request has failed and that of another has not been tried yet
C18_Witness ==
    /\ response = Redirect("verify_delete_account")
    /\ \E t, w \in mail :
          /\ t.outcome = "failed" /\ w.outcome = "started"
          /\ accounts["max"].verification_code = w.code

----------------------------------------------------------------------------
(* Password recovery *)

\* C19: reset_new_password changes the password only of the user whose
\* stored code the successful verify_forgot_code of the same session matched.
C19_ResetOnlyTheVerifiedUser ==
    [][\A k \in SessionKeys : \A u \in DOMAIN accounts \cap DOMAIN accounts' :
          (/\ accounts'[u].password # accounts[u].password
           /\ sessions[k].code_verified /\ ~sessions'[k].code_verified)
          => sessions[k].matched = u]_vars

----------------------------------------------------------------------------
(* Change of the email address *)

\* C20: the address verify_email_change_new writes to user.email is one a
\* step-2 code was sent to, and the code accepted at step 2 is that code.
C20_NewAddressIsVerified ==
    [][\A u \in DOMAIN accounts \cap DOMAIN accounts' :
          accounts'[u].email # accounts[u].email =>
             Thread(accounts'[u].email, "Email Change Step 2",
                    accounts[u].verification_code) \in mail]_vars

\* C21: the two steps of an email change happen in order.  user.email is
\* written only in a session of that user which holds a pending_email and
\* the mark step1_verified; the address written is the pending one and the
\* request removes both marks.  step1_verified is set only by a
\* verify_email_change_old that accepted the stored code and mailed the
\* code of step 2 to the pending address.
C21_StepsInOrder ==
    /\ [][\A u \in DOMAIN accounts \cap DOMAIN accounts' :
             accounts'[u].email # accounts[u].email =>
                \E k \in SessionKeys :
                   /\ sessions[k].user = u
                   /\ sessions[k].pending_email # None
                   /\ sessions[k].step1_verified
                   /\ accounts'[u].email = sessions[k].pending_email
                   /\ sessions'[k].pending_email = None
                   /\ ~sessions'[k].step1_verified]_vars
    /\ [][\A k \in SessionKeys :
             sessions'[k].step1_verified /\ ~sessions[k].step1_verified =>
                /\ sessions[k].pending_email # None
                /\ sessions[k].user \in DOMAIN accounts'
                /\ Thread(sessions[k].pending_email, "Email Change Step 2",
                          accounts'[sessions[k].user].verification_code)
                      \in mail']_vars

\* max has gone through both steps: the address is the new one, the marks
\* are gone and both notices have been started.
C21_Witness ==
    /\ accounts["max"].email = "x@new"
    /\ sessions["s1"].pending_email = None
    /\ ~sessions["s1"].step1_verified
    /\ Thread("x@new", "Email Change Step 2", "222222") \in mail
    /\ Thread("x@new", "Verified", None) \in mail

----------------------------------------------------------------------------
(* Deletion of an account *)

\* C22: an account is deleted only when init_delete_account has issued a
\* deletion code to its user and that code is the one stored when the
\* account goes; a user without a pending code is not deleted.
C22_DeletedOnlyWithIssuedCode ==
    [][\A u \in DOMAIN accounts \ DOMAIN accounts' :
          /\ accounts[u].verification_code # None
          /\ Thread(accounts[u].email, "Confirm Deletion",
                    accounts[u].verification_code) \in mail]_vars

----------------------------------------------------------------------------
(* One stored code for every flow *)

\* the code of accounts[u] is pending and was mailed under this subject
IssuedFor(u, to_email, subject) ==
    /\ accounts[u].verification_code # None
    /\ Thread(to_email, subject, accounts[u].verification_code) \in mail

\* C23: a pending code is accepted only by the flow that issued it (the
\* deletion, step 1 and step 2 of the email change, the password reset), and
\* the pending code of a user is replaced by another only by a request of a
\* session logged in as that user (a forgot_password request leaves the
\* user's name in its session).
C23_CodeAcceptedByItsFlowOnly ==
    /\ [][\A u \in DOMAIN accounts :
             accounts[u].verification_code # None =>
                /\ u \notin DOMAIN accounts' =>
                      IssuedFor(u, accounts[u].email, "Confirm Deletion")
                /\ \A k \in SessionKeys :
                      /\ sessions[k].user = u /\ u \in DOMAIN accounts'
                      /\ sessions'[k].step1_verified /\ ~sessions[k].step1_verified
                      => IssuedFor(u, accounts[u].email, "Verify Email Change")
                /\ u \in DOMAIN accounts' /\ accounts'[u].email # accounts[u].email =>
                      IssuedFor(u, accounts'[u].email, "Email Change Step 2")
                /\ \A k \in SessionKeys :
                      /\ sessions[k].reset_user_id = u
                      /\ sessions'[k].code_verified /\ ~sessions[k].code_verified
                      => IssuedFor(u, accounts[u].email, "Reset Password")]_vars
    /\ [][\A u \in DOMAIN accounts \cap DOMAIN accounts' :
             /\ accounts[u].verification_code # None
             /\ accounts'[u].verification_code # accounts[u].verification_code
             /\ accounts'[u].verification_code # None
             => \E k \in SessionKeys :
                   /\ sessions[k].user = u
                   /\ accounts'[u].verification_code = OtpReset =>
                         sessions'[k].reset_user_id = u]_vars

----------------------------------------------------------------------------
(* Registration *)

\* C24: a user made by register is inactive from its creation.  is_active
\* becomes true only in a verify_email POST of a session that holds the
\* user's id as verification_id, and the stored code is cleared with it; a
\* POST that is answered "Invalid Code." changes no account and no session;
\* no session is logged in to an inactive account.
C24_InactiveUntilVerified ==
    /\ [](\A k \in SessionKeys :
             sessions[k].user \in DOMAIN accounts => accounts[sessions[k].user].is_active)
    /\ [][\A id \in DOMAIN accounts' \ DOMAIN accounts : ~accounts'[id].is_active]_vars
    /\ [][\A id \in DOMAIN accounts \cap DOMAIN accounts' :
             accounts'[id].is_active /\ ~accounts[id].is_active =>
                /\ \E k \in SessionKeys :
                      /\ sessions[k].verification_id = id
                      /\ \/ sessions'[k].user = id /\ sessions'[k].verification_id = None
                         \/ response' = ServerError
                /\ accounts'[id].verification_code = None
                /\ Thread(accounts[id].email, "Welcome!", None) \in mail']_vars
    /\ [][response' = Invalid("verify_generic", "Invalid Code.") =>
             UNCHANGED <<accounts, sessions>>]_vars

\* A name was registered and the code mailed for it has activated the
\* account and logged the browser in.
C24_Witness ==
    \E k \in SessionKeys :
       /\ sessions[k].user \in DOMAIN accounts \ Users
       /\ accounts[sessions[k].user].is_active
       /\ accounts[sessions[k].user].verification_code = None
       /\ sessions[k].verification_id = None
       /\ \E t \in mail : t.subject = "Verify Your Account"
                             /\ t.to_email = accounts[sessions[k].user].email

\* C25: a registration deletes the unverified accounts that hold its
\* username or its email, so that once the new user is stored no unverified
\* account shares either with it; register deletes no active account.
C25_UnverifiedHolderDeleted ==
    /\ [][\A id \in DOMAIN accounts \ DOMAIN accounts' : ~accounts[id].is_active]_vars
    /\ [][\A id \in DOMAIN accounts' \ DOMAIN accounts :
             \A j \in DOMAIN accounts' \ (Users \cup {id}) :
                ~accounts'[j].is_active =>
                   /\ accounts'[j].username # accounts'[id].username
                   /\ accounts'[j].email # accounts'[id].email]_vars

\* C26: a registration POST that does not succeed, because a form is
\* invalid or because of an error after the user row was saved, leaves the
\* set of users as it was.
C26_FailedRegistrationKeepsUsers ==
    [][response'.view = "register" /\ "error" \in DOMAIN response' =>
          accounts' = accounts]_vars

----------------------------------------------------------------------------
(* Who may change a note *)

\* a note but for its view count and the time of its insert (an owner who
\* deletes a note while editing it inserts it again)
Content(n) == [n EXCEPT !.view_count = 0, !.created_at = 0]

\* C27: edit_note and delete_note of a user who is not note.user leave the
\* note, its comments and its ratings as they are.  Here only the owner's
\* title is ever written to a note, and note 1, whose owner sends no
\* delete_note, stays, with every comment and rating it has.
C27_OnlyOwnerChangesNote ==
    /\ [](1 \in DOMAIN notes /\ notes[1].created_at = 1)
    /\ [][\A pk \in DOMAIN notes \cap DOMAIN notes' :
             Content(notes'[pk]) # Content(notes[pk]) =>
                Content(notes'[pk]) =
                   [Content(notes[pk]) EXCEPT !.title = EditTitle(notes[pk].user)]]_vars
    /\ [][/\ {c \in comments : c.post = 1} \subseteq comments'
          /\ {r \in ratings : r.note = 1} \subseteq ratings']_vars

\* bo's delete_note has removed bo's own note; max's note, which got the
\* same requests, is there with max's title, a comment and a rating.
C27_Witness ==
    /\ 2 \notin DOMAIN notes
    /\ notes[1].title = EditTitle("max")
    /\ \E c \in comments : c.post = 1
    /\ \E r \in ratings : r.note = 1
    /\ response = Redirect("home")

\* C28: a comment is removed only by a POST of its author or of the owner
\* of its note.  Here the only POSTs are bo's, so every comment that goes is
\* one bo wrote or one on bo's note; a comment of max on max's note stays,
\* whatever bo posts and whatever max sends as GET.
C28_CommentRemovedByAuthorOrOwner ==
    [][\A c \in comments \ comments' :
          c.user = "bo" \/ notes[c.post].user = "bo"]_vars

\* bo's comment on max's note has been deleted by bo; max's comment on the
\* same note, which got the same requests, is in place.
C28_Witness ==
    /\ seq.comment = 2
    /\ comments = {[id |-> 2, post |-> 1, user |-> "max"]}
    /\ response = Redirect("home")

----------------------------------------------------------------------------
(* The password of edit_profile *)

\* C29: an edit_profile POST without the user's password changes nothing of
\* the user: here bo, whose every POST carries a wrong password or none,
\* keeps the profile, the address and the stored code, and bo's session gets
\* no pending_email and no mail is started for bo.
C29_NoChangeWithoutPassword ==
    /\ [](accounts["bo"] = Registered["bo"])
    /\ [](sessions["s2"] = LoggedIn["s2"])
    /\ [](\A t \in mail : t.to_email # Address("bo"))

\* max, with the password, has changed the bio and asked for a new address;
\* bo's POST has just been sent back to the form.
C29_Witness ==
    /\ accounts["max"].bio = "yo"
    /\ sessions["s1"].pending_email = "y@new"
    /\ accounts["max"].verification_code = "111111"
    /\ accounts["bo"] = Registered["bo"]
    /\ response = Redirect("edit_profile")

----------------------------------------------------------------------------
(* One view per session *)

\* C30: a session adds to the view count of a note at most once, with its
\* first note_detail request for the note; so the view count of a note that
\* started at 0 never exceeds the number of sessions that hold its key.
C30_OneViewPerSession ==
    \A pk \in DOMAIN notes : notes[pk].view_count <= Cardinality(Viewers(pk))

====
